---- MODULE Spec2Model ----
(***************************************************************************)
(* Model of src/app.py: the adapter call_llm (prompt building, one HTTP    *)
(* POST, normalisation of the outcome into a result record) and its caller *)
(* process (translate, then optionally judge).                             *)
(*                                                                         *)
(* Python values are tagged records, so that a value of any JSON type can  *)
(* sit in the "text" field exactly as the code leaves it there.  Strings   *)
(* are TLA+ strings; str(), repr(), json serialisation and parsing are     *)
(* computed on them.  The module is ASCII: the Cyrillic literals of the    *)
(* source are written in Latin transliteration.                            *)
(***************************************************************************)
EXTENDS Integers, Sequences, FiniteSets, TLC

VARIABLES ppc, form, cpc, args, net, result, posts, calls, rets, view

vars == <<ppc, form, cpc, args, net, result, posts, calls, rets, view>>

-----------------------------------------------------------------------------
(* Bounds of the model *)

MaxMessages == 2

MaxSourceLen == 2

-----------------------------------------------------------------------------
(* Python values *)

PyS(s) == [t |-> "str", s |-> s]

PyInt(n) == [t |-> "int", n |-> n]

PyBool(b) == [t |-> "bool", b |-> b]

PyNone == [t |-> "none"]

PyList(items) == [t |-> "list", items |-> items]

PyDict(pairs) == [t |-> "dict", pairs |-> pairs]

RECURSIVE Join(_, _)
Join(sep, parts) ==
  IF parts = <<>> THEN ""
  ELSE IF Len(parts) = 1 THEN parts[1]
  ELSE parts[1] \o sep \o Join(sep, Tail(parts))

Digit(d) ==
  CASE d = 0 -> "0" [] d = 1 -> "1" [] d = 2 -> "2" [] d = 3 -> "3"
    [] d = 4 -> "4" [] d = 5 -> "5" [] d = 6 -> "6" [] d = 7 -> "7"
    [] d = 8 -> "8" [] d = 9 -> "9"

RECURSIVE IntStr(_)
IntStr(n) ==
  IF n < 0 THEN "-" \o IntStr(0 - n)
  ELSE IF n < 10 THEN Digit(n)
  ELSE IntStr(n \div 10) \o Digit(n % 10)

RECURSIVE PyRepr(_)
PyRepr(v) ==
  CASE v.t = "str" -> "'" \o v.s \o "'"
    [] v.t = "int" -> IntStr(v.n)
    [] v.t = "bool" -> IF v.b THEN "True" ELSE "False"
    [] v.t = "none" -> "None"
    [] v.t = "list" ->
         "[" \o Join(", ", [i \in 1..Len(v.items) |-> PyRepr(v.items[i])]) \o "]"
    [] v.t = "dict" ->
         "{" \o Join(", ", [i \in 1..Len(v.pairs) |->
                  "'" \o v.pairs[i][1] \o "': " \o PyRepr(v.pairs[i][2])]) \o "}"
    [] v.t = "exc" -> v.cls \o "('" \o v.msg \o "')"

PyStr(v) ==
  CASE v.t = "str" -> v.s
    [] v.t = "exc" -> v.msg
    [] OTHER -> PyRepr(v)

Truthy(v) ==
  CASE v.t = "str" -> v.s # ""
    [] v.t = "int" -> v.n # 0
    [] v.t = "bool" -> v.b
    [] v.t = "none" -> FALSE
    [] v.t = "list" -> v.items # <<>>
    [] v.t = "dict" -> v.pairs # <<>>
    [] OTHER -> TRUE

PyOr(a, b) == IF Truthy(a) THEN a ELSE b

HasKey(d, k) == \E i \in 1..Len(d.pairs) : d.pairs[i][1] = k

DictGet(d, k) ==
  IF HasKey(d, k)
  THEN d.pairs[CHOOSE i \in 1..Len(d.pairs) : d.pairs[i][1] = k][2]
  ELSE PyNone

-----------------------------------------------------------------------------
(* Exceptions and completions of a block of code *)

PyExc(cls, msg) == [t |-> "exc", cls |-> cls, msg |-> msg]

\* The classes an exception of class cls is an instance of.
Bases(cls) ==
  CASE cls \in {"Timeout", "ConnectionError", "SSLError"} ->
         {cls, "RequestException", "OSError", "Exception"}
    [] cls = "JSONDecodeError" -> {cls, "ValueError", "Exception"}
    [] cls = "AttributeError" -> {cls, "Exception"}

IsInstance(e, cls) == cls \in Bases(e.cls)

Return(v) == [kind |-> "return", val |-> v]

Raise(e) == [kind |-> "raise", exc |-> e]

-----------------------------------------------------------------------------
(* The transport: what requests.post can produce for one POST *)

MENTORPIECE_ENDPOINT == "https://api.mentorpiece.org/v1/process-ai-request"

RECURSIVE JsonDumps(_)
JsonDumps(v) ==
  CASE v.t = "str" -> "\"" \o v.s \o "\""
    [] v.t = "int" -> IntStr(v.n)
    [] v.t = "bool" -> IF v.b THEN "true" ELSE "false"
    [] v.t = "none" -> "null"
    [] v.t = "list" ->
         "[" \o Join(", ", [i \in 1..Len(v.items) |-> JsonDumps(v.items[i])]) \o "]"
    [] v.t = "dict" ->
         "{" \o Join(", ", [i \in 1..Len(v.pairs) |->
                  "\"" \o v.pairs[i][1] \o "\": " \o JsonDumps(v.pairs[i][2])]) \o "}"

Absent == [t |-> "absent"]

ResponseVals ==
  { Absent, PyS(""), PyS("Bonjour"), PyInt(0), PyInt(5), PyBool(FALSE),
    PyNone, PyList(<<PyInt(1)>>) }

MessageVals == { Absent, PyS(""), PyS("overloaded") }

Field(k, v) == IF v = Absent THEN <<>> ELSE << <<k, v>> >>

\* The JSON documents a server can answer with.
JsonDocs ==
  { PyDict(Field("response", r) \o Field("message", m)) :
      r \in ResponseVals, m \in MessageVals }
  \cup { PyDict(<<<<"detail", PyS("nope")>>>>), PyList(<<PyInt(1)>>), PyNone }

NonJsonBodies == { "", "plain text" }

Bodies == { JsonDumps(v) : v \in JsonDocs } \cup NonJsonBodies

Statuses == { 200, 204, 500 }

Responses ==
  { [kind |-> "response", status_code |-> s, text |-> b] : s \in Statuses, b \in Bodies }

\* The exceptions requests.post raises on a transport failure; each carries
\* the description of the underlying error.
TransportErrors ==
  { PyExc("Timeout", "Read timed out. (read timeout=20)"),
    PyExc("ConnectionError", "Name or service not known"),
    PyExc("SSLError", "certificate verify failed") }

\* json.loads on each body: the document that serialises to it, or the
\* decoder's error when there is none.
JsonLoads ==
  [ b \in Bodies |->
      IF \E v \in JsonDocs : JsonDumps(v) = b
      THEN Return(CHOOSE v \in JsonDocs : JsonDumps(v) = b)
      ELSE Raise(PyExc("JSONDecodeError", "Expecting value")) ]

\* resp.json()
RespJson(resp) == JsonLoads[resp.text]

-----------------------------------------------------------------------------
(* call_llm *)

PromptPart(m) ==
  IF m.t = "dict" /\ HasKey(m, "content")
  THEN PyStr(DictGet(m, "content"))
  ELSE PyStr(m)

BuildPromptSpaces(messages) ==
  Join(" ", [i \in 1..Len(messages) |-> PromptPart(messages[i])])

BuildPrompt(messages) ==
  Join("\n", [i \in 1..Len(messages) |-> PromptPart(messages[i])])

Payload(model_name, prompt) ==
  [ url |-> MENTORPIECE_ENDPOINT,
    json |-> [model_name |-> model_name, prompt |-> prompt],
    headers |-> [ContentType |-> "application/json"],
    timeout |-> 20 ]

Result(ok, text, raw, status_code) ==
  [ok |-> ok, text |-> text, raw |-> raw, status_code |-> status_code]

NoGet == Raise(PyExc("AttributeError", "object has no attribute 'get'"))

\* j.get("response") or j.get("message") or raw, for the parse p of the body.
FailureTextOf(p, raw) ==
  IF p.kind = "raise" THEN p
  ELSE IF p.val.t # "dict" THEN NoGet
  ELSE Return(PyOr(PyOr(DictGet(p.val, "response"), DictGet(p.val, "message")), raw))

FailureTextPresent(p, raw) ==
  IF p.kind = "raise" THEN p
  ELSE IF p.val.t # "dict" THEN NoGet
  ELSE Return(IF HasKey(p.val, "response") THEN DictGet(p.val, "response")
              ELSE IF HasKey(p.val, "message") THEN DictGet(p.val, "message")
              ELSE raw)

FailureTextTryPresent(resp) == FailureTextPresent(RespJson(resp), PyS(resp.text))

\* The body of the inner try of the non-200 branch.
FailureTextTry(resp) == FailureTextOf(RespJson(resp), PyS(resp.text))

\* except Exception: text = raw
CatchException(c, raw) ==
  IF c.kind = "raise" /\ IsInstance(c.exc, "Exception") THEN Return(raw) ELSE c

FailureText(resp) == CatchException(FailureTextTry(resp), PyS(resp.text))

FailureReturn(c, resp) ==
  IF c.kind = "raise" THEN c
  ELSE Return(Result(FALSE, c.val, PyS(resp.text), PyInt(resp.status_code)))

\* The branch status != 200.
HttpFailure(resp) == FailureReturn(FailureText(resp), resp)

\* j.get("response") if isinstance(j, dict) else None
ResponseField(j) == IF j.t = "dict" THEN DictGet(j, "response") ELSE PyNone

TextOrStrIsNone(text, j) == IF text = PyNone THEN PyS(PyStr(j)) ELSE text

\* if not text: text = str(j)
TextOrStr(text, j) == IF ~Truthy(text) THEN PyS(PyStr(j)) ELSE text

SuccessOf(p, resp) ==
  IF p.kind = "raise" THEN p
  ELSE Return(Result(TRUE, TextOrStr(ResponseField(p.val), p.val),
                     PyS(resp.text), PyInt(resp.status_code)))

SuccessOfNoGuard(p, resp) ==
  IF p.kind = "raise" THEN p
  ELSE IF p.val.t # "dict" THEN NoGet
  ELSE Return(Result(TRUE, TextOrStr(DictGet(p.val, "response"), p.val),
                     PyS(resp.text), PyInt(resp.status_code)))

SuccessTryNoGuard(resp) == SuccessOfNoGuard(RespJson(resp), resp)

\* The body of the try of the success path.
SuccessTry(resp) == SuccessOf(RespJson(resp), resp)

\* except ValueError: the raw body is the text
CatchValueError(c, resp) ==
  IF c.kind = "raise" /\ IsInstance(c.exc, "ValueError")
  THEN Return(Result(TRUE, PyS(resp.text), PyS(resp.text), PyInt(resp.status_code)))
  ELSE c

RawIsText(c) ==
  IF c.kind = "raise" THEN c ELSE Return([c.val EXCEPT !.raw = PyS(PyStr(c.val.text))])

HttpSuccessRawIsText(resp) == RawIsText(CatchValueError(SuccessTry(resp), resp))

\* The success path, status 200.
HttpSuccess(resp) == CatchValueError(SuccessTry(resp), resp)

HandleResponseClientErrors(resp) ==
  IF resp.status_code >= 400 THEN HttpFailure(resp) ELSE HttpSuccess(resp)

HandleResponse(resp) ==
  IF resp.status_code # 200 THEN HttpFailure(resp) ELSE HttpSuccess(resp)

\* The body of the outer try: the POST's outcome, then the response handling.
CallTry(outcome) ==
  IF outcome.kind = "error" THEN Raise(outcome.exc) ELSE HandleResponse(outcome)

CatchRequestExceptionRepr(c) ==
  IF c.kind = "raise" /\ IsInstance(c.exc, "RequestException")
  THEN Return(Result(FALSE, PyS(PyRepr(c.exc)), PyS(PyRepr(c.exc)), PyNone))
  ELSE c

\* except requests.RequestException as e
CatchRequestException(c) ==
  IF c.kind = "raise" /\ IsInstance(c.exc, "RequestException")
  THEN Return(Result(FALSE, PyS(PyStr(c.exc)), PyS(""), PyNone))
  ELSE c

\* The completion of call_llm for the outcome of its POST.
CatchTransport(outcome) == CatchRequestException(CallTry(outcome))

AfterOutcomeRetry(outcome) ==
  IF outcome.kind = "error" THEN "entered" ELSE "returned"

\* Where call_llm stands once the outcome of its POST is handled: every
\* branch is a return statement, there is no loop around the POST.
AfterOutcome(outcome) == "returned"

-----------------------------------------------------------------------------
(* process *)

TranslateModel == "Qwen/Qwen3-VL-30B-A3B-Instruct"

JudgeModel == "claude-sonnet-4-5-20250929"

IsSpace(c) == c \in {" ", "\t", "\n"}

RECURSIVE LStrip(_)
LStrip(chars) ==
  IF chars # <<>> /\ IsSpace(Head(chars)) THEN LStrip(Tail(chars)) ELSE chars

RECURSIVE RStrip(_)
RStrip(chars) ==
  IF chars # <<>> /\ IsSpace(chars[Len(chars)])
  THEN RStrip(SubSeq(chars, 1, Len(chars) - 1))
  ELSE chars

\* str.strip(), on the characters of the string; the result as a string.
Strip(chars) == Join("", RStrip(LStrip(chars)))

\* request.form.get(k, default): a field is <<>> when the form lacks it.
FormGet(f, k, default) == IF f[k] = <<>> THEN default ELSE f[k][1]

SourceText(f) == Strip(FormGet(f, "source_text", <<>>))

Language(f) == FormGet(f, "language", "English")

IsJudge(f) == f["action"] = <<"judge">>

UserMessage(content) ==
  PyDict(<< <<"role", PyS("user")>>, <<"content", PyS(content)>> >>)

TranslatePrompt(language, source_text) ==
  "Perevedi na " \o language \o ": " \o source_text

JudgePromptNoPlaceholder(source_text, translation) ==
  "Oceni kachestvo perevoda ot 1 do 10 i korotko argumentiruj.\n"
  \o "Original: " \o source_text \o "\nPerevod: " \o PyStr(translation)

JudgePrompt(source_text, translation) ==
  "Oceni kachestvo perevoda ot 1 do 10 i korotko argumentiruj.\n"
  \o "Original: " \o source_text \o "\nPerevod: "
  \o PyStr(PyOr(translation, PyS("[net perevoda]")))

Render(f, trans_resp, judge) ==
  [ template |-> "index.html",
    source_text |-> SourceText(f),
    language |-> Language(f),
    translation |-> trans_resp.text,
    translation_ok |-> trans_resp.ok,
    translation_raw |-> trans_resp.raw,
    judge_text |-> judge.text,
    judge_ok |-> judge.ok,
    judge_raw |-> judge.raw ]

NoJudge == [text |-> PyNone, ok |-> FALSE, raw |-> PyNone]

-----------------------------------------------------------------------------
(* Inputs *)

Chars == {" ", "a"}

SourceTexts == UNION { [1..n -> Chars] : n \in 0..MaxSourceLen }

Forms ==
  [ source_text : {<<>>} \cup { <<t>> : t \in SourceTexts },
    language : { <<>>, <<"French">> },
    action : { <<>>, <<"translate">>, <<"judge">> } ]

EmptyForm == [source_text |-> <<>>, language |-> <<>>, action |-> <<>>]

Messages ==
  { UserMessage("Hello"),
    PyDict(<< <<"role", PyS("user")>>, <<"content", PyInt(5)>> >>),
    PyDict(<< <<"content", PyS("")>> >>),
    PyDict(<< <<"role", PyS("user")>> >>),
    PyS("bare") }

MessageSeqs == UNION { [1..n -> Messages] : n \in 0..MaxMessages }

ModelNames == { TranslateModel, JudgeModel }

-----------------------------------------------------------------------------
(* The state machine *)

NoOutcome == [kind |-> "none"]

NoView == [template |-> "none"]

Init ==
  /\ ppc = "idle"
  /\ form = EmptyForm
  /\ cpc = "idle"
  /\ args = [model_name |-> "", messages |-> <<>>]
  /\ net = NoOutcome
  /\ result = NoOutcome
  /\ posts = <<>>
  /\ calls = <<>>
  /\ rets = <<>>
  /\ view = NoView

\* The caller of call_llm, or the handler of the submission, has finished.
Finished ==
  \/ ppc = "rendered"
  \/ ppc = "direct" /\ cpc \in {"returned", "raised"}

\* A caller other than process invokes call_llm(model_name, messages).
Call(model_name, messages) ==
  /\ ppc = "idle"
  /\ ppc' = "direct"
  /\ form' = EmptyForm
  /\ cpc' = "entered"
  /\ args' = [model_name |-> model_name, messages |-> messages]
  /\ net' = NoOutcome
  /\ result' = NoOutcome
  /\ posts' = <<>>
  /\ calls' = <<args'>>
  /\ rets' = <<>>
  /\ view' = NoView

\* POST /: the form is read; an empty source text is flashed back, otherwise
\* the translation call is made.
Process(f) ==
  /\ ppc = "idle"
  /\ form' = f
  /\ net' = NoOutcome
  /\ result' = NoOutcome
  /\ posts' = <<>>
  /\ rets' = <<>>
  /\ IF SourceText(f) = ""
     THEN /\ ppc' = "rendered"
          /\ cpc' = "idle"
          /\ args' = [model_name |-> "", messages |-> <<>>]
          /\ calls' = <<>>
          /\ view' = [template |-> "index.html", flash |-> "enter the source text"]
     ELSE /\ ppc' = "translate"
          /\ cpc' = "entered"
          /\ args' = [ model_name |-> TranslateModel,
                       messages |-> <<UserMessage(TranslatePrompt(Language(f), SourceText(f)))>> ]
          /\ calls' = <<args'>>
          /\ view' = NoView

\* call_llm builds the prompt and the payload and sends the POST.
Post ==
  /\ cpc = "entered"
  /\ posts' = Append(posts, Payload(args.model_name, BuildPrompt(args.messages)))
  /\ cpc' = "awaiting"
  /\ UNCHANGED <<ppc, form, args, net, result, calls, rets, view>>

\* The server answers the POST.
Respond(r) ==
  /\ cpc = "awaiting"
  /\ net' = r
  /\ cpc' = "responded"
  /\ UNCHANGED <<ppc, form, args, result, posts, calls, rets, view>>

\* The POST fails in the transport: requests.post raises e.
TransportFail(e) ==
  /\ cpc = "awaiting"
  /\ net' = [kind |-> "error", exc |-> e]
  /\ cpc' = "responded"
  /\ UNCHANGED <<ppc, form, args, result, posts, calls, rets, view>>

\* Where call_llm stands with completion c of its try statement.
Position(c, outcome) == IF c.kind = "raise" THEN "raised" ELSE AfterOutcome(outcome)

FinishAt(pos, c) ==
  /\ cpc' = pos
  /\ result' = IF pos = "entered" THEN result ELSE c
  /\ rets' = IF pos = "returned" THEN Append(rets, c.val) ELSE rets

\* call_llm handles the outcome and returns (or raises) to its caller.
Finish ==
  /\ cpc = "responded"
  /\ FinishAt(Position(CatchTransport(net), net), CatchTransport(net))
  /\ UNCHANGED <<ppc, form, args, net, posts, calls, view>>

\* process after the translation call: the judge call, or the page.
ProcessAfterTranslate ==
  /\ ppc = "translate"
  /\ cpc = "returned"
  /\ IF IsJudge(form)
     THEN /\ ppc' = "judge"
          /\ cpc' = "entered"
          /\ args' = [ model_name |-> JudgeModel,
                       messages |-> <<UserMessage(JudgePrompt(SourceText(form),
                                                              result.val.text))>> ]
          /\ calls' = Append(calls, args')
          /\ net' = NoOutcome
          /\ result' = NoOutcome
          /\ view' = view
     ELSE /\ ppc' = "rendered"
          /\ cpc' = "idle"
          /\ view' = Render(form, result.val, NoJudge)
          /\ UNCHANGED <<args, calls, net, result>>
  /\ UNCHANGED <<form, posts, rets>>

\* process after the judge call: the page with both results.
ProcessAfterJudge ==
  /\ ppc = "judge"
  /\ cpc = "returned"
  /\ ppc' = "rendered"
  /\ cpc' = "idle"
  /\ view' = Render(form, rets[1], result.val)
  /\ UNCHANGED <<form, args, net, result, posts, calls, rets>>

\* Nothing outlives a call or a submission: the next one starts afresh.
Done ==
  /\ Finished
  /\ ppc' = "idle"
  /\ form' = EmptyForm
  /\ cpc' = "idle"
  /\ args' = [model_name |-> "", messages |-> <<>>]
  /\ net' = NoOutcome
  /\ result' = NoOutcome
  /\ posts' = <<>>
  /\ calls' = <<>>
  /\ rets' = <<>>
  /\ view' = NoView

\* call_llm under any caller.
Next ==
  \/ \E m \in ModelNames, ms \in MessageSeqs : Call(m, ms)
  \/ Post
  \/ \E r \in Responses : Respond(r)
  \/ \E e \in TransportErrors : TransportFail(e)
  \/ Finish
  \/ Done

Spec == Init /\ [][Next]_vars

\* call_llm under process.
NextProcess ==
  \/ \E f \in Forms : Process(f)
  \/ Post
  \/ \E r \in Responses : Respond(r)
  \/ \E e \in TransportErrors : TransportFail(e)
  \/ Finish
  \/ ProcessAfterTranslate
  \/ ProcessAfterJudge
  \/ Done

SpecProcess == Init /\ [][NextProcess]_vars

TypeOK ==
  /\ ppc \in {"idle", "direct", "translate", "judge", "rendered"}
  /\ cpc \in {"idle", "entered", "awaiting", "responded", "returned", "raised"}
  /\ form \in Forms
  /\ Len(rets) <= Len(calls)

-----------------------------------------------------------------------------
(* Properties of call_llm (specification Spec) *)

Returned == cpc = "returned"

Completed == net.kind = "response"

Failed == net.kind = "error"

\* C1: call_llm never raises to its caller: whatever the transport outcome
\* (failure, any status, a body that is not JSON, a JSON mapping, JSON that is
\* not a mapping), the call returns a record with exactly the four fields ok,
\* text, raw, status_code.
C1_NeverRaises ==
  /\ cpc # "raised"
  /\ Returned =>
       /\ result.kind = "return"
       /\ DOMAIN result.val = {"ok", "text", "raw", "status_code"}

\* C1 witness: the call has returned for a 200 answer whose JSON body is not
\* a mapping.
C1_Witness ==
  /\ Returned /\ Completed /\ net.status_code = 200
  /\ RespJson(net).kind = "return" /\ RespJson(net).val.t = "list"

\* C2: ok is true exactly when the exchange completed with status 200;
\* status_code is null exactly when the transport failed; status_code is
\* present with ok false exactly when the exchange completed with a status
\* other than 200.
C2_OutcomeClasses ==
  Returned =>
    /\ result.val.ok = TRUE <=> (Completed /\ net.status_code = 200)
    /\ result.val.status_code.t = "none" <=> Failed
    /\ (result.val.status_code.t # "none" /\ result.val.ok = FALSE)
         <=> (Completed /\ net.status_code # 200)

\* C2 witness: the call has returned for a completed exchange whose status is
\* neither 200 nor an error status.
C2_Witness == Returned /\ Completed /\ net.status_code = 204

\* A field value that is not empty: not the empty string, list or mapping,
\* and not null.
NonEmpty(v) ==
  CASE v.t = "str" -> v.s # ""
    [] v.t = "list" -> v.items # <<>>
    [] v.t = "dict" -> v.pairs # <<>>
    [] v.t = "none" -> FALSE
    [] OTHER -> TRUE

\* The text of a 200 answer, with Usable deciding whether the value of the
\* "response" field is used.
SuccessTextIs(Usable(_)) ==
  (Returned /\ Completed /\ net.status_code = 200) =>
    /\ result.val.ok = TRUE
    /\ result.val.status_code = PyInt(200)
    /\ LET p == RespJson(net) IN
         IF p.kind = "raise" THEN result.val.text = PyS(net.text)
         ELSE IF p.val.t = "dict" /\ HasKey(p.val, "response")
                 /\ Usable(DictGet(p.val, "response"))
              THEN result.val.text = DictGet(p.val, "response")
              ELSE result.val.text = PyS(PyStr(p.val))

\* C3 as stated: on status 200, ok is true, status_code is 200 and text is the
\* "response" field of a JSON mapping when that field is non-empty, the string
\* representation of the parsed body when the field is absent or empty or the
\* body is not a mapping, and the raw body when the body is not JSON.
C3_AsStated == SuccessTextIs(NonEmpty)

\* C3 amended: as C3, with "non-empty" read as "truthy": a "response" field
\* holding null, false, 0, "" or an empty list or mapping is not used, and
\* text is then the string representation of the parsed body.
C3_SuccessText == SuccessTextIs(Truthy)

\* C3 witness: the call has returned for a 200 answer whose "response" field
\* is present and falsy without being empty.
C3_Witness ==
  /\ Returned /\ Completed /\ net.status_code = 200
  /\ RespJson(net).kind = "return" /\ RespJson(net).val.t = "dict"
  /\ HasKey(RespJson(net).val, "response")
  /\ DictGet(RespJson(net).val, "response") \in {PyInt(0), PyBool(FALSE)}
  /\ result.val.text = PyS(PyStr(RespJson(net).val))

\* The text of an answer whose status is not 200, with Usable deciding whether
\* the value of a field that is present is used.
FailureTextIs(Usable(_)) ==
  (Returned /\ Completed /\ net.status_code # 200) =>
    /\ result.val.ok = FALSE
    /\ result.val.status_code = PyInt(net.status_code)
    /\ LET p == RespJson(net) IN
         IF p.kind = "return" /\ p.val.t = "dict"
         THEN IF HasKey(p.val, "response") /\ Usable(DictGet(p.val, "response"))
              THEN result.val.text = DictGet(p.val, "response")
              ELSE IF HasKey(p.val, "message") /\ Usable(DictGet(p.val, "message"))
                   THEN result.val.text = DictGet(p.val, "message")
                   ELSE result.val.text = PyS(net.text)
         ELSE result.val.text = PyS(net.text)

AnyValue(v) == TRUE

\* C4 as stated: on a status other than 200, ok is false, status_code is the
\* status and text is the "response" field of a JSON mapping if present, else
\* its "message" field if present, else the raw body; the raw body too when
\* the body is not JSON or not a mapping.
C4_AsStated == FailureTextIs(AnyValue)

\* C4 amended: as C4, with a field used only if it is present and truthy: a
\* "response" or "message" field holding null, false, 0, "" or an empty list
\* or mapping is skipped.
C4_FailureText == FailureTextIs(Truthy)

\* C4 witness: the call has returned for a non-200 answer whose "response"
\* field is present and falsy and whose "message" field is usable.
C4_Witness ==
  /\ Returned /\ Completed /\ net.status_code = 500
  /\ RespJson(net).kind = "return" /\ RespJson(net).val.t = "dict"
  /\ HasKey(RespJson(net).val, "response")
  /\ ~Truthy(DictGet(RespJson(net).val, "response"))
  /\ result.val.text = PyS("overloaded")

C6_RawIsBody ==
  Returned =>
    result.val.raw = IF Completed THEN PyS(net.text) ELSE PyS("")

\* C6 witness: the call has returned for a 200 answer whose text is taken
\* from the parsed body and differs from the body.
C6_Witness ==
  /\ Returned /\ Completed /\ net.status_code = 200
  /\ result.val.text = PyS("Bonjour")
  /\ result.val.raw # result.val.text

\* C7: every result has the declared shape: ok a boolean, text a string or
\* null, raw a string, status_code an integer or null.
C7_DeclaredShape ==
  Returned =>
    /\ result.val.ok \in BOOLEAN
    /\ result.val.text.t \in {"str", "none"}
    /\ result.val.raw.t = "str"
    /\ result.val.status_code.t \in {"int", "none"}

\* C8: each call sends exactly one POST, to the fixed endpoint: none before
\* the prompt is built, one from then on, and no second one after a transport
\* failure, a non-200 status or an unparsable body.
C8_OnePost ==
  /\ cpc = "entered" => Len(posts) = 0
  /\ cpc \in {"awaiting", "responded", "returned", "raised"} =>
       /\ Len(posts) = 1
       /\ posts[1].url = "https://api.mentorpiece.org/v1/process-ai-request"

\* C8 witness: the call has returned after a transport failure, one POST sent.
C8_Witness == Returned /\ Failed /\ Len(posts) = 1

\* The content of a message as the prompt takes it.
Content(m) ==
  IF m.t = "dict" THEN PyStr(DictGet(m, "content")) ELSE PyStr(m)

RECURSIVE NewlineJoin(_)
NewlineJoin(ms) ==
  IF ms = <<>> THEN ""
  ELSE IF Len(ms) = 1 THEN Content(ms[1])
  ELSE Content(ms[1]) \o "\n" \o NewlineJoin(Tail(ms))

\* The messages are mappings with a content, or are not mappings.
HaveContent(ms) ==
  \A i \in 1..Len(ms) : ms[i].t = "dict" => HasKey(ms[i], "content")

-----------------------------------------------------------------------------
(* Properties of process (specification SpecProcess) *)

Handling == ppc \in {"translate", "judge", "rendered"} /\ SourceText(form) # ""

ExpectedTranslate ==
  "Perevedi na " \o Language(form) \o ": " \o SourceText(form)

\* The first call produced no text.
NoText(text) == text = PyNone \/ text = PyS("")

ExpectedJudge ==
  "Oceni kachestvo perevoda ot 1 do 10 i korotko argumentiruj.\nOriginal: "
  \o SourceText(form) \o "\nPerevod: "
  \o (IF NoText(rets[1].text) THEN "[net perevoda]" ELSE PyStr(rets[1].text))

CallIs(i, model_name, prompt) ==
  /\ calls[i] = [model_name |-> model_name, messages |-> <<UserMessage(prompt)>>]
  /\ Len(posts) >= i =>
       posts[i].json = [model_name |-> model_name, prompt |-> prompt]

\* C9: for a submission with a non-empty trimmed source text, "translate"
\* issues exactly one adapter call (the translation model, the prompt naming
\* the language and the text); "judge" issues exactly two, the second only
\* after the first has returned, to the judge model, with a prompt that embeds
\* the source text and the first call's text, or the placeholder when the
\* first call produced no text.
C9_Calls ==
  Handling =>
    /\ Len(calls) >= 1
    /\ CallIs(1, "Qwen/Qwen3-VL-30B-A3B-Instruct", ExpectedTranslate)
    /\ Len(calls) <= Len(rets) + 1
    /\ Len(posts) <= Len(calls)
    /\ form["action"] = <<"translate">> =>
         /\ Len(calls) = 1
         /\ ppc = "rendered" => (Len(posts) = 1 /\ Len(rets) = 1)
    /\ form["action"] = <<"judge">> =>
         /\ ppc = "translate" => Len(calls) = 1
         /\ ppc \in {"judge", "rendered"} =>
              /\ Len(calls) = 2
              /\ Len(rets) >= 1
              /\ CallIs(2, "claude-sonnet-4-5-20250929", ExpectedJudge)
         /\ ppc = "rendered" => (Len(posts) = 2 /\ Len(rets) = 2)

\* C9 witness: a judge submission is rendered after two calls, the first of
\* which produced no text.
C9_Witness ==
  /\ ppc = "rendered" /\ form["action"] = <<"judge">>
  /\ Len(calls) = 2 /\ Len(rets) = 2
  /\ rets[1].text = PyS("")

====
